---- MODULE Spec2Model ----
(***************************************************************************)
(* A model of the Databricks MCP server of src/main2.py: the line-oriented *)
(* JSON-RPC dispatch loop, its eleven tool handlers, and the keyword       *)
(* extraction / schema discovery / SQL generation pipeline of              *)
(* smart_natural_language_query.                                           *)
(*                                                                         *)
(* A Python str whose content the code inspects is a sequence of           *)
(* one-character strings, so that lower(), split(), strip(), replace(),    *)
(* startswith() and the regular expression \b\d+\b are computed, not       *)
(* assumed.                                                                *)
(***************************************************************************)
EXTENDS Integers, Sequences, FiniteSets, TLC

VARIABLES
    apiKey,         \* GEMINI_API_KEY is set (module level, main2.py 29)
    warehouse,      \* the table names of system.information_schema.tables
    clientPc,       \* MCPClient: position of send_request, or no client
    sent,           \* MCPClient: request lines written to the server's stdin
    stdinPipe,      \* MCPClient: the lines in the pipe to the server's stdin
    process,        \* MCPClient: self.process, a started process or none
    server_stdin,   \* MCPClient: self.server_stdin, the stdin pipe of a process
    server_stdout,  \* MCPClient: self.server_stdout, the stdout pipe of a process
    started,        \* the processes subprocess.Popen has started so far
    alive,          \* those of them that still run
    stopped,        \* stop_server was called and no start_server succeeded since
    returned,       \* what the last call of a method of MCPClient returned
    pipeUsed,       \* the process whose pipes the last send_request used
    stderrRoom,     \* lines sys.stderr still takes without blocking
    pc,             \* position of the __main__ loop
    nRead,          \* lines read from stdin so far
    written,        \* lines written to stdout (and flushed) so far
    line,           \* the line being served
    response,       \* the response line handed to sys.stdout.write
    stage,          \* position inside the two natural-language tools
    query,          \* their query argument
    keywords,       \* smart_natural_language_query: the keywords list
    kwIndex,        \* ... index in keywords[:5] of the keyword being searched
    searchNo,       \* ... which of its three searches comes next
    discovered_tables,  \* ... the discovered_tables set
    searchFailed,   \* ... a search of this request raised in the warehouse
    rowsReturned,   \* ... the tables of the rows its searches returned
    detailed,       \* ... the tables the detail loop has visited
    table_details_map,  \* ... the table_details_map dict
    schema_context, \* ... the schema_context, a list of its blocks
    prompt,         \* the prompt last given to the generative model
    generated_sql,  \* the value of generate_sql_from_natural_language
    model,          \* what the call of model.generate_content did
    modelCalls,     \* calls of model.generate_content for this line
    sqlCalls,       \* calls of execute_sql_query for this line
    sqlArg,         \* the argument of the last of them
    warehouseCalls, \* calls of execute_databricks_sql for this line
    sdk,            \* what the call made inside execute_sql_query did
    catalogCalls    \* calls of the Unity Catalog helpers for this line

loopVars == <<pc, nRead, written, line, response>>
smartVars == <<keywords, kwIndex, searchNo, discovered_tables, searchFailed, rowsReturned,
               detailed, table_details_map, schema_context>>
genVars == <<query, prompt, generated_sql>>
callVars == <<model, modelCalls, sqlCalls, sqlArg, warehouseCalls, sdk, catalogCalls>>

\* what the process of the server is given when it is started
\* the attributes of the MCPClient object and the processes it started
clientVars == <<process, server_stdin, server_stdout, started, alive, stopped,
                returned, pipeUsed>>

hostVars == <<apiKey, warehouse, clientPc, sent, stdinPipe, clientVars>>

vars == <<hostVars, stderrRoom, loopVars, stage, smartVars, genVars, callVars>>

----------------------------------------------------------------------------
(* Characters and the str methods the code uses.                           *)

UpperChars == <<"A","B","C","D","E","F","G","H","I","J","K","L","M",
                "N","O","P","Q","R","S","T","U","V","W","X","Y","Z">>
LowerChars == <<"a","b","c","d","e","f","g","h","i","j","k","l","m",
                "n","o","p","q","r","s","t","u","v","w","x","y","z">>
Digits == {"0","1","2","3","4","5","6","7","8","9"}
Whitespace == {" ", "\n", "\t"}

Range(s) == { s[i] : i \in 1..Len(s) }

IsWordChar(c) ==
    c \in Range(UpperChars) \cup Range(LowerChars) \cup Digits \cup {"_", "I_WITH_DOT"}

LowerChar(c) ==
    IF \E i \in 1..Len(UpperChars) : UpperChars[i] = c
    THEN LowerChars[CHOOSE i \in 1..Len(UpperChars) : UpperChars[i] = c]
    ELSE c

UpperChar(c) ==
    IF \E i \in 1..Len(LowerChars) : LowerChars[i] = c
    THEN UpperChars[CHOOSE i \in 1..Len(LowerChars) : LowerChars[i] = c]
    ELSE c

\* U+0130, the capital letter I with a dot above, and U+0307, the combining
\* dot above: a letter and a mark that is no word character
DottedI == "I_WITH_DOT"
CombiningDot == "DOT_ABOVE"

\* the lower case of one character: U+0130 is the one character whose lower
\* case is two characters, i and the combining dot
LowerOf(c) == IF c = DottedI THEN <<"i", CombiningDot>> ELSE <<LowerChar(c)>>

\* str.lower()
RECURSIVE Lower(_)
Lower(s) == IF s = <<>> THEN <<>> ELSE LowerOf(Head(s)) \o Lower(Tail(s))

\* str.upper()
Upper(s) == [i \in 1..Len(s) |-> UpperChar(s[i])]

\* str.startswith(p)
StartsWith(s, p) == Len(s) >= Len(p) /\ SubSeq(s, 1, Len(p)) = p

\* str.split() with no argument: the maximal runs of non-whitespace.
RECURSIVE SplitFrom(_, _, _)
SplitFrom(s, i, cur) ==
    IF i > Len(s)
    THEN (IF cur = <<>> THEN <<>> ELSE <<cur>>)
    ELSE IF s[i] \in Whitespace
         THEN (IF cur = <<>> THEN <<>> ELSE <<cur>>) \o SplitFrom(s, i + 1, <<>>)
         ELSE SplitFrom(s, i + 1, Append(cur, s[i]))

Split(s) == SplitFrom(s, 1, <<>>)

\* str.strip(): leading and trailing whitespace removed.
RECURSIVE LStrip(_)
LStrip(s) == IF s # <<>> /\ Head(s) \in Whitespace THEN LStrip(Tail(s)) ELSE s

RECURSIVE RStrip(_)
RStrip(s) ==
    IF s # <<>> /\ s[Len(s)] \in Whitespace THEN RStrip(SubSeq(s, 1, Len(s) - 1)) ELSE s

Strip(s) == RStrip(LStrip(s))

\* str.replace(old, ""): every non-overlapping occurrence of old, scanning
\* from the left, is removed.
RECURSIVE Remove(_, _)
Remove(s, old) ==
    IF s = <<>> THEN <<>>
    ELSE IF StartsWith(s, old) THEN Remove(SubSeq(s, Len(old) + 1, Len(s)), old)
    ELSE <<Head(s)>> \o Remove(Tail(s), old)

\* the members of a list, as list(set(xs)) sees them
SetOf(xs) == Range(xs)

\* every list that holds each member of the set S exactly once
Orderings(S) ==
    { f \in [1..Cardinality(S) -> S] : \A x \in S : \E i \in 1..Cardinality(S) : f[i] = x }

----------------------------------------------------------------------------
(* Keyword extraction: smart_natural_language_query, main2.py 256-290.     *)

stop_words ==
    { <<"g","i","v","e">>, <<"m","e">>, <<"a","l","l">>, <<"t","h","e">>,
      <<"a">>, <<"a","n">>, <<"a","n","d">>, <<"o","r">>, <<"b","u","t">>,
      <<"i","n">>, <<"o","n">>, <<"a","t">>, <<"t","o">>, <<"f","o","r">>,
      <<"o","f">>, <<"w","i","t","h">>, <<"b","y">>, <<"i","s">>,
      <<"a","r","e">>, <<"w","a","s">>, <<"w","e","r","e">>,
      <<"w","h","o","s","e">>, <<"w","h","a","t">>, <<"w","h","i","c","h">>,
      <<"w","h","e","n">>, <<"w","h","e","r","e">>, <<"w","h","y">>,
      <<"h","o","w">>, <<"m","a","n","y">>, <<"m","u","c","h">>,
      <<"f","e","w">>, <<"s","h","o","w">>,
      <<"d","i","s","p","l","a","y">>, <<"l","i","s","t">>,
      <<"f","i","n","d">>, <<"s","e","a","r","c","h">>, <<"g","e","t">>,
      <<"r","e","t","u","r","n">> }

\* the groups of the column_variations dict, in insertion order
column_variations ==
    << << <<"n","a","m","e">>,
          <<"n","a","m","e","s">>,
          <<"f","i","r","s","t","n","a","m","e">>,
          <<"l","a","s","t","n","a","m","e">>,
          <<"f","u","l","l","n","a","m","e">> >>,
       << <<"i","d">>,
          <<"i","d","e","n","t","i","f","i","e","r">>,
          <<"c","o","d","e">>,
          <<"n","u","m","b","e","r">> >>,
       << <<"c","u","s","t","o","m","e","r">>,
          <<"c","l","i","e","n","t">>,
          <<"u","s","e","r">>,
          <<"a","c","c","o","u","n","t">> >>,
       << <<"o","r","d","e","r">>,
          <<"p","u","r","c","h","a","s","e">>,
          <<"t","r","a","n","s","a","c","t","i","o","n">> >>,
       << <<"p","r","o","d","u","c","t">>,
          <<"i","t","e","m">>,
          <<"s","k","u">>,
          <<"g","o","o","d","s">> >> >>

\* KeepWord without the stop-word test
KeepWordAnyLong(word) == Len(word) > 2

\* [word for word in words if word not in stop_words and len(word) > 2]
KeepWord(word) == word \notin stop_words /\ Len(word) > 2

FilterWords(words) == SelectSeq(words, KeepWord)

\* re.findall(r'\b\d+\b', query): the runs of digits that have a word
\* boundary on both sides, from left to right.
IsNumberAt(q, i, j) ==
    /\ \A k \in i..j : q[k] \in Digits
    /\ (i = 1 \/ ~IsWordChar(q[i - 1]))
    /\ (j = Len(q) \/ ~IsWordChar(q[j + 1]))

RECURSIVE NumbersFrom(_, _)
NumbersFrom(q, i) ==
    IF i > Len(q) THEN <<>>
    ELSE IF \E j \in i..Len(q) : IsNumberAt(q, i, j)
         THEN LET j == CHOOSE j \in i..Len(q) : IsNumberAt(q, i, j)
              IN  <<SubSeq(q, i, j)>> \o NumbersFrom(q, j + 1)
         ELSE NumbersFrom(q, i + 1)

\* FindNumbers under the length filter of the words: runs of one or two
\* digits are dropped
FindLongNumbers(q) == SelectSeq(NumbersFrom(q, 1), LAMBDA n : Len(n) > 2)

FindNumbers(q) == NumbersFrom(q, 1)

\* the inner loop of the expansion: the variations of the first group that
\* holds the keyword (break), or nothing
RECURSIVE VariationsFrom(_, _)
VariationsFrom(keyword, g) ==
    IF g > Len(column_variations) THEN <<>>
    ELSE IF keyword \in Range(column_variations[g]) THEN column_variations[g]
    ELSE VariationsFrom(keyword, g + 1)

\* the outer loop: each keyword, followed by the variations of its group
RECURSIVE ExpandKeywords(_)
ExpandKeywords(kws) ==
    IF kws = <<>> THEN <<>>
    ELSE <<Head(kws)>> \o VariationsFrom(Head(kws), 1) \o ExpandKeywords(Tail(kws))

\* lines 257-287: the expanded_keywords list of a query
ExpandedKeywords(q) ==
    ExpandKeywords(FilterWords(Split(Lower(q))) \o FindNumbers(q))

\* line 290, keywords = list(set(expanded_keywords)): the order in which a
\* set of str is iterated depends on the per-process hash seed, so every
\* order of the set is a list the code can produce.
KeywordLists(q) == Orderings(SetOf(ExpandedKeywords(q)))

----------------------------------------------------------------------------
(* More str methods, used on the text of search results.                   *)

\* sub in s
Contains(s, sub) ==
    \E i \in 1..(Len(s) - Len(sub) + 1) : SubSeq(s, i, i + Len(sub) - 1) = sub

\* str.split(sep) for a one-character sep: the pieces between one occurrence
\* of sep (or an end of the string) and the next; empty pieces are kept
SplitOn(s, sep) ==
    LET seps == { i \in 1..Len(s) : s[i] = sep }
        n == Cardinality(seps)
        At(k) == IF k = 0 THEN 0
                 ELSE IF k = n + 1 THEN Len(s) + 1
                 ELSE CHOOSE p \in seps : Cardinality({ q \in seps : q <= p }) = k
    IN  [k \in 1..(n + 1) |-> SubSeq(s, At(k - 1) + 1, At(k) - 1)]

\* sep.join(pieces)
RECURSIVE Join(_, _)
Join(pieces, sep) ==
    IF pieces = <<>> THEN <<>>
    ELSE IF Len(pieces) = 1 THEN Head(pieces)
    ELSE Head(pieces) \o sep \o Join(Tail(pieces), sep)

\* Prefix without the cut: the whole list
NoPrefix(xs, n) == xs

\* xs[:n]
Prefix(xs, n) == SubSeq(xs, 1, IF Len(xs) < n THEN Len(xs) ELSE n)

----------------------------------------------------------------------------
(* JSON values, requests and responses: handle_json_rpc_request.           *)

JNull == [type |-> "null"]
JNum(n) == [type |-> "number", num |-> n]
JStr(str) == [type |-> "string", str |-> str]
JArray == [type |-> "array"]
JObj(members) == [type |-> "object", members |-> members]

\* self.process = None, lines 13-15 and 44: the attribute holds no process;
\* the processes Popen starts are numbered from 1
NoProcess == 0

\* MCPClient.__init__, lines 12-15, and no method called yet
NoClient ==
    /\ process = NoProcess
    /\ server_stdin = NoProcess
    /\ server_stdout = NoProcess
    /\ started = 0
    /\ alive = {}
    /\ stopped = FALSE
    /\ returned = "nothing"
    /\ pipeUsed = NoProcess

\* Python None where an argument or a dict value is a plain string
None == "None"

\* dict.get(key, default)
Get(d, key, default) == IF key \in DOMAIN d THEN d[key] ELSE default

\* the keys of method_map
method_map ==
    { "list_all_catalogs", "list_schemas_in_catalog", "list_tables_in_schema",
      "get_table_details", "search_tables_by_name", "search_columns_by_name",
      "search_tables_by_description", "smart_natural_language_query",
      "execute_sql_query", "natural_language_query", "clear_cache" }

\* the parameters each tool function must be given
RequiredArgs(m) ==
    CASE m = "list_schemas_in_catalog" -> {"catalog_name"}
      [] m = "list_tables_in_schema" -> {"catalog_name", "schema_name"}
      [] m = "get_table_details" -> {"full_table_name"}
      [] m = "search_tables_by_name" -> {"table_name_pattern"}
      [] m = "search_columns_by_name" -> {"column_name_pattern"}
      [] m = "search_tables_by_description" -> {"description_pattern"}
      [] m = "smart_natural_language_query" -> {"query"}
      [] m = "execute_sql_query" -> {"sql"}
      [] m = "natural_language_query" -> {"query"}
      [] OTHER -> {}

\* the parameters that have a default
OptionalArgs(m) ==
    CASE m = "list_tables_in_schema" -> {"include_columns"}
      [] m = "get_table_details" -> {"include_lineage"}
      [] m = "search_tables_by_name" -> {"catalog_name"}
      [] m = "search_columns_by_name" -> {"catalog_name", "schema_name"}
      [] m = "search_tables_by_description" -> {"catalog_name"}
      [] m = "smart_natural_language_query" ->
            {"catalog_name", "schema_name", "auto_discover_schema"}
      [] m = "natural_language_query" -> {"catalog_name", "schema_name"}
      [] OTHER -> {}

\* json.loads(request_data) returns
ParsesAsJson(l) == l.json # "invalid"

\* the parsed value has a get method
IsDict(l) == l.json = "object"

\* method = request.get("method")
MethodOf(l) == Get(l.members, "method", JNull)

\* params = request.get("params", {})
ParamsOf(l) == Get(l.members, "params", JObj(<<>>))

\* RequestId without the lookup: always the default
RequestIdDefault(l) == JNum(1)

\* request_id = request.get("id", 1)
RequestId(l) == Get(l.members, "id", JNum(1))

\* method in method_map can be evaluated: the method is hashable
Hashable(v) == v.type \notin {"array", "object"}

InMethodMap(v) == v.type = "string" /\ v.str \in method_map

\* the call of method_map[method] with params as keyword arguments binds:
\* params is a mapping whose keys are
\* parameters of the function and include the required ones
Binds(m, ps) ==
    /\ ps.type = "object"
    /\ RequiredArgs(m) \subseteq DOMAIN ps.members
    /\ DOMAIN ps.members \subseteq RequiredArgs(m) \cup OptionalArgs(m)

\* the line is a request for tool m that reaches the tool function
Calls(l, m) ==
    /\ IsDict(l)
    /\ MethodOf(l) = JStr(m)
    /\ Binds(m, ParamsOf(l))

\* an argument of the call, or its default
Arg(l, name, default) == Get(ParamsOf(l).members, name, default)

ResultResponse(id, result) == [jsonrpc |-> "2.0", id |-> id, result |-> result]

ErrorResponse(id, code, message) ==
    [jsonrpc |-> "2.0", id |-> id, error |-> [code |-> code, message |-> message]]

----------------------------------------------------------------------------
(* The collaborators: what a call of one of them can do.                   *)

\* str(e) of the faults a collaborator raises
FaultTexts == { <<"b","o","o","m">>, <<>> }

NoCall == [kind |-> "none"]
Raises(text) == [kind |-> "raises", text |-> text]
Returns(value) == [kind |-> "returns", value |-> value]

Faults == { Raises(t) : t \in FaultTexts }

\* the grave accent, which the module's own syntax cannot quote
Backtick == "GRAVE"

\* the Markdown code fence, three grave accents
Fence == <<Backtick, Backtick, Backtick>>

\* model.generate_content(prompt) followed by response.text: SQL, fenced
\* SQL in lower case, SQL in odd spacing, prose, prose that starts like
\* the error signal, and the empty string
ModelReplies ==
    { <<"S","E","L","E","C","T"," ","1">>,
      Fence \o <<"s","q","l","\n","s","e","l","e","c","t"," ","1","\n">> \o Fence,
      <<" ","d","r","o","p"," ","t","a","b","l","e"," ","t"," ">>,
      <<"I"," ","c","a","n","n","o","t">>,
      <<"E","r","r","o","r",":"," ","n","o">>,
      <<>> }

ModelOutcomes == Faults \cup { Returns(r) : r \in ModelReplies }

\* the Unity Catalog helpers and clear_lineage_cache
CatalogOutcomes == Faults \cup { Returns("text") }

\* the cells of the rows of system.information_schema.tables
TableNames == { <<"t">>, <<"u">> }

\* a third table, whose name holds a keyword of the query cod 1
MoreTableNames == TableNames \cup { <<"c","o","d">> }

\* a table whose name is the word Error
ErrorTable == <<"E","r","r","o","r">>

\* ORDER BY table_catalog, table_schema, table_name: capitals come first
TableOrder == << ErrorTable, <<"c","o","d">>, <<"t">>, <<"u">> >>
TableRow(t) == << <<"m">>, <<"s">>, t, <<"T">>, <<"c">> >>
TableColumns == << <<"c","a","t">>, <<"s","c","h">>, <<"t","b","l">>,
                   <<"t","y","p">>, <<"c","m","t">> >>

SuccessResult(rows) ==
    [status |-> "success", columns |-> TableColumns, data |-> rows]

\* the rows of the tables of S, in the order of the statement
RowsOf(S) ==
    LET names == SelectSeq(TableOrder, LAMBDA t : t \in S)
    IN  [i \in 1..Len(names) |-> TableRow(names[i])]

\* the row lists a search can return when the warehouse holds the tables w
RowLists(w) == { RowsOf(S) : S \in SUBSET w }

\* execute_databricks_sql on a search statement
SearchOutcomes(w) == Faults \cup { Returns(SuccessResult(rows)) : rows \in RowLists(w) }

\* the tables catalog.schema.name of the rows a search returned
TablesReturned(outcome) ==
    IF outcome.kind = "raises" THEN {}
    ELSE { outcome.value.data[i][1] \o <<".">> \o outcome.value.data[i][2]
               \o <<".">> \o outcome.value.data[i][3]
           : i \in 1..Len(outcome.value.data) }

\* execute_databricks_sql on any statement: a dict with a status and
\* perhaps an error and details, a dict without a status, or a fault
SdkResults ==
    { SuccessResult(<<>>), SuccessResult(<<TableRow(<<"t">>)>>),
      [status |-> "failed", error |-> "bad sql", details |-> "line 1"],
      [status |-> "failed"],
      [status |-> "error", error |-> "no warehouse", details |-> "timeout"],
      [status |-> "error"],
      [status |-> "pending"],
      [data |-> <<>>] }

WarehouseOutcomes == Faults \cup { Returns(r) : r \in SdkResults }

\* get_uc_table_details
DetailOutcomes == Faults \cup { Returns("columns") }

----------------------------------------------------------------------------
(* The tool functions, as functions of what their collaborator did.        *)

\* databricks_formatter.format_query_results on a successful result: a
\* header line, a separator line and one line per row, cells joined by " | "
FormatQueryResults(sdk_result) ==
    LET bar == <<" ","|"," ">>
        dashes == [i \in 1..Len(sdk_result.columns) |-> <<"-","-","-">>]
        rows == [i \in 1..Len(sdk_result.data) |-> Join(sdk_result.data[i], bar)]
    IN  Join(<<Join(sdk_result.columns, bar), Join(dashes, bar)>> \o rows, <<"\n">>)

GEMINI_KEY_ERROR ==
    <<"E","r","r","o","r",":"," ","G","E","M","I","N","I","_","A","P","I","_",
      "K","E","Y"," ","n","o","t"," ","s","e","t","."," ","C","a","n","n","o",
      "t"," ","g","e","n","e","r","a","t","e"," ","S","Q","L"," ","f","r","o",
      "m"," ","n","a","t","u","r","a","l"," ","l","a","n","g","u","a","g","e",
      ".">>

ERROR_GENERATING ==
    <<"E","r","r","o","r"," ","g","e","n","e","r","a","t","i","n","g"," ",
      "S","Q","L",":"," ">>

\* line 60: the text stripped, the sql fence and then the bare fence removed,
\* and stripped again
CleanReply(text) ==
    Strip(Remove(Remove(Strip(text), Fence \o <<"s","q","l">>), Fence))

\* generate_sql_from_natural_language, lines 39-62: key is GEMINI_API_KEY
\* being set, outcome what the model did (it is not called without a key)
generate_sql_from_natural_language(key, outcome) ==
    IF ~key THEN GEMINI_KEY_ERROR
    ELSE IF outcome.kind = "raises" THEN ERROR_GENERATING \o outcome.text
    ELSE CleanReply(outcome.value)

\* BuildPrompt without the test of line 51: the section is always there
BuildPromptWithSection(q, catalog_name, schema_name, context) ==
    [ catalog |-> IF catalog_name # None THEN catalog_name ELSE None,
      schema |-> IF schema_name # None THEN schema_name ELSE None,
      schema_information |-> context,
      has_schema_information |-> TRUE,
      query |-> q ]

\* lines 43-57: the parts of the prompt
BuildPrompt(q, catalog_name, schema_name, context) ==
    [ catalog |-> IF catalog_name # None THEN catalog_name ELSE None,
      schema |-> IF schema_name # None THEN schema_name ELSE None,
      schema_information |-> context,
      has_schema_information |-> context # <<>>,
      query |-> q ]

\* IsErrorSignal testing for the prefix of the other error message
IsErrorSignalOfGeneration(sql) == StartsWith(sql, ERROR_GENERATING)

\* the test both callers make: generated_sql starts with Error and a colon
IsErrorSignal(sql) == StartsWith(sql, <<"E","r","r","o","r",":">>)

\* ExecuteSqlQuery without the branch for the status error
ExecuteSqlQueryNoErrorBranch(outcome) ==
    IF outcome.kind = "raises"
    THEN [msg |-> "An unexpected error occurred while executing SQL query",
          detail |-> outcome.text]
    ELSE LET sdk_result == outcome.value
             status == Get(sdk_result, "status", None)
         IN  IF status = "failed"
             THEN [msg |-> "SQL Query Failed",
                   error |-> Get(sdk_result, "error", "Unknown query execution error."),
                   details |-> Get(sdk_result, "details", "No additional details provided.")]
             ELSE IF status = "success"
             THEN [msg |-> "rows", text |-> FormatQueryResults(sdk_result)]
             ELSE [msg |-> "Received an unexpected status from query execution",
                   status |-> status, result |-> sdk_result]

\* execute_sql_query, lines 393-412
ExecuteSqlQuery(outcome) ==
    IF outcome.kind = "raises"
    THEN [msg |-> "An unexpected error occurred while executing SQL query",
          detail |-> outcome.text]
    ELSE LET sdk_result == outcome.value
             status == Get(sdk_result, "status", None)
         IN  IF status = "failed"
             THEN [msg |-> "SQL Query Failed",
                   error |-> Get(sdk_result, "error", "Unknown query execution error."),
                   details |-> Get(sdk_result, "details", "No additional details provided.")]
             ELSE IF status = "error"
             THEN [msg |-> "Error during SQL Execution",
                   error |-> Get(sdk_result, "error", "Unknown error during SQL execution."),
                   details |-> Get(sdk_result, "details", "No additional details provided.")]
             ELSE IF status = "success"
             THEN [msg |-> "rows", text |-> FormatQueryResults(sdk_result)]
             ELSE [msg |-> "Received an unexpected status from query execution",
                   status |-> status, result |-> sdk_result]

\* the three search tools, lines 142-165, 179-196, 209-231: the formatted
\* result, or an Error searching message that quotes the pattern and the fault
SearchTool(pattern, outcome) ==
    IF outcome.kind = "raises"
    THEN <<"E","r","r","o","r"," ","s","e","a","r","c","h","i","n","g"," ","'">>
         \o pattern \o <<"'",":"," ">> \o outcome.text
    ELSE FormatQueryResults(outcome.value)

\* get_table_details, lines 125-129: the detail text or an error message
GetTableDetails(table, outcome) ==
    IF outcome.kind = "raises"
    THEN [table |-> table, error |-> TRUE, text |-> outcome.text]
    ELSE [table |-> table, error |-> FALSE, text |-> <<>>]

\* lines 304-310: the identifiers parsed out of the text of a search result
TableOfLine(l) ==
    LET pieces == SplitOn(l, "|")
        parts == [i \in 1..Len(pieces) |-> Strip(pieces[i])]
    IN  IF Len(parts) >= 3 /\ parts[3] # <<>>
        THEN { parts[1] \o <<".">> \o parts[2] \o <<".">> \o parts[3] }
        ELSE {}

IsRowLine(l) == Contains(l, <<"|">>) /\ Strip(l) # <<>> /\ ~StartsWith(l, <<"-">>)

ParseTables(text) ==
    LET lines == SplitOn(text, "\n")
    IN  UNION { IF IsRowLine(lines[i]) THEN TableOfLine(lines[i]) ELSE {}
                : i \in 3..Len(lines) }

\* lines 302, 314, 326: the tables one search adds to discovered_tables
TablesFound(search_result) ==
    IF ~Contains(search_result, <<"E","r","r","o","r">>) /\ Strip(search_result) # <<>>
    THEN ParseTables(search_result)
    ELSE {}

\* line 298, keywords[:5]
KeywordLimit == 5

\* line 339, list(discovered_tables)[:5]
TableLimit == 5

\* line 339: the lists list(discovered_tables)[:5] can be; a set of str is
\* listed in an order that depends on the hash seed of the process
TableListings(tables) == { Prefix(l, TableLimit) : l \in Orderings(tables) }

----------------------------------------------------------------------------
(* Bounds of the model.                                                    *)

\* the longest query of the extraction specification
MaxQueryLen == 4

\* the characters of its queries: code is a member of a synonym group, for
\* and or are stop words, F has another letter case, 1 is a digit, and the
\* lower case of U+0130 is longer than the letter
QueryChars == {"c", "o", "d", "e", "f", "r", "F", "1", " ", ",", DottedI}

RECURSIVE StringsUpTo(_, _)
StringsUpTo(chars, n) ==
    IF n = 0 THEN { <<>> }
    ELSE LET shorter == StringsUpTo(chars, n - 1)
         IN  shorter \cup { Append(s, c) : s \in { t \in shorter : Len(t) = n - 1 }, c \in chars }

Queries == StringsUpTo(QueryChars, MaxQueryLen)

----------------------------------------------------------------------------
(* The lines the server is given.                                          *)

\* the number of lines read before stdin is closed
MaxLines == 2

SmartQueries == { <<>>, <<"f","o","r"," ","1">>, <<"c","o","d"," ","1">> }

\* a member a request may lack
Absent == [type |-> "absent"]

Ids == { JNum(7), JNull, Absent }

Methods ==
    { JStr(m) : m \in method_map } \cup { JStr("no_such_method"), JArray, Absent }

\* params that bind, for each tool
GoodParams(m) ==
    CASE m = "list_schemas_in_catalog" -> { JObj([catalog_name |-> "main"]) }
      [] m = "list_tables_in_schema" ->
            { JObj([catalog_name |-> "main", schema_name |-> "s"]) }
      [] m = "get_table_details" ->
            { JObj([full_table_name |-> <<"m",".","s",".","t">>]) }
      [] m = "search_tables_by_name" -> { JObj([table_name_pattern |-> <<"t">>]) }
      [] m = "search_columns_by_name" -> { JObj([column_name_pattern |-> <<"t">>]) }
      [] m = "search_tables_by_description" ->
            { JObj([description_pattern |-> <<"t">>]) }
      [] m = "execute_sql_query" ->
            { JObj([sql |-> <<"S","E","L","E","C","T"," ","1">>]) }
      [] m = "natural_language_query" ->
            { JObj([query |-> <<"f","o","r"," ","1">>]),
              JObj([query |-> <<>>, catalog_name |-> "main", schema_name |-> "s"]) }
      [] m = "smart_natural_language_query" ->
            { JObj([query |-> q]) : q \in SmartQueries }
            \cup { JObj([query |-> <<"c","o","d"," ","1">>, auto_discover_schema |-> FALSE]),
                   JObj([query |-> <<"f","o","r"," ","1">>, catalog_name |-> "main",
                         schema_name |-> "s"]) }
      [] OTHER -> { JObj(<<>>) }

\* params that no tool binds: not a mapping, or with an unknown key
BadParams == { JArray, JObj([bogus |-> TRUE]) }

ParamsFor(method) ==
    { Absent } \cup BadParams
    \cup (IF method.type = "string" THEN GoodParams(method.str) ELSE {})

Object(method, params, id) ==
    LET field == [method |-> method, params |-> params, id |-> id]
        keys == { k \in DOMAIN field : field[k] # Absent }
    IN  [json |-> "object", members |-> [k \in keys |-> field[k]]]

\* a line that is not JSON, a line that is JSON but no object, and requests
Lines ==
    { [json |-> "invalid"], [json |-> "array"] }
    \cup UNION { { Object(m, p, i) : p \in ParamsFor(m), i \in Ids } : m \in Methods }

NoLine == [json |-> "none"]

----------------------------------------------------------------------------
(* The __main__ loop and handle_json_rpc_request.                          *)

\* sys.stderr is the terminal or a file: a write to it never blocks
Unbounded == -1

\* print(..., file=sys.stderr) returns: there is room for the line
StderrTakesLine == stderrRoom = Unbounded \/ stderrRoom > 0

\* sys.stderr after the line is written
StderrAfterLine == IF stderrRoom = Unbounded THEN Unbounded ELSE stderrRoom - 1

\* the locals of the loop body and of a tool call, before they are bound
FreshLocals ==
    /\ response' = <<>>
    /\ stage' = "idle"
    /\ query' = <<>>
    /\ keywords' = <<>>
    /\ kwIndex' = 1
    /\ searchNo' = 1
    /\ discovered_tables' = {}
    /\ searchFailed' = FALSE
    /\ rowsReturned' = {}
    /\ detailed' = {}
    /\ table_details_map' = <<>>
    /\ schema_context' = <<>>
    /\ prompt' = <<>>
    /\ generated_sql' = <<>>
    /\ model' = NoCall
    /\ modelCalls' = 0
    /\ sqlCalls' = 0
    /\ sqlArg' = <<>>
    /\ warehouseCalls' = 0
    /\ sdk' = NoCall
    /\ catalogCalls' = 0

\* line 512: a line is read
ReadLine ==
    /\ pc = "read"
    /\ nRead < MaxLines
    /\ \E l \in Lines : line' = l
    /\ nRead' = nRead + 1
    /\ pc' = "handle"
    /\ FreshLocals
    /\ UNCHANGED <<hostVars, stderrRoom, written>>

\* lines 513-514: readline returns the empty string at end of input
EndOfInput ==
    /\ pc = "read"
    /\ pc' = "stopped"
    /\ UNCHANGED <<hostVars, stderrRoom, nRead, written, line, response, stage, smartVars,
                   genVars, callVars>>

\* lines 517-518 and 531-532: the response is written and flushed
WriteResponse ==
    /\ pc = "write"
    /\ written' = written + 1
    /\ pc' = "read"
    /\ UNCHANGED <<hostVars, stderrRoom, nRead, line, response, stage, smartVars, genVars, callVars>>

\* handle_json_rpc_request returns this response to the loop
Reply(resp) ==
    /\ response' = resp
    /\ pc' = "write"
    /\ stage' = "idle"
    /\ UNCHANGED <<hostVars, stderrRoom, nRead, written, line>>

\* lines 522-530: the response of the loop to a fault that escapes
\* handle_json_rpc_request
ServerError == ErrorResponse(JNull, -32603, "Server error")

\* the tool function returned result: lines 476-481
ToolReturns(result) == Reply(ResultResponse(RequestId(line), result))

AtHandler == pc = "handle" /\ stage = "idle"

\* HandleInvalidJson in a loop that has no except clause of its own: the
\* fault ends the loop
HandleInvalidJsonStops ==
    /\ AtHandler
    /\ ~ParsesAsJson(line)
    /\ pc' = "stopped"
    /\ UNCHANGED <<hostVars, stderrRoom, nRead, written, line, response, stage, smartVars,
                   genVars, callVars>>

\* HandleInvalidJson in a loop whose except clause writes nothing
HandleInvalidJsonSilently ==
    /\ AtHandler
    /\ ~ParsesAsJson(line)
    /\ pc' = "read"
    /\ UNCHANGED <<hostVars, stderrRoom, nRead, written, line, response, stage, smartVars,
                   genVars, callVars>>

\* json.loads raises at line 454; the handler at line 497 reads request,
\* which was never bound, and that fault reaches the loop
HandleInvalidJson ==
    /\ AtHandler
    /\ ~ParsesAsJson(line)
    /\ Reply(ServerError)
    /\ UNCHANGED <<smartVars, genVars, callVars>>

\* the line is JSON but no object: request.get raises at line 455 and
\* again in the handler at line 497
HandleNotADict ==
    /\ AtHandler
    /\ ParsesAsJson(line) /\ ~IsDict(line)
    /\ Reply(ServerError)
    /\ UNCHANGED <<smartVars, genVars, callVars>>

\* line 474 raises for a method that cannot be hashed: lines 494-502
HandleUnhashableMethod ==
    /\ AtHandler
    /\ IsDict(line) /\ ~Hashable(MethodOf(line))
    /\ Reply(ErrorResponse(RequestId(line), -32603, "Internal error"))
    /\ UNCHANGED <<smartVars, genVars, callVars>>

\* lines 482-490
HandleMethodNotFound ==
    /\ AtHandler
    /\ IsDict(line) /\ Hashable(MethodOf(line)) /\ ~InMethodMap(MethodOf(line))
    /\ Reply(ErrorResponse(RequestId(line), -32601, "Method not found"))
    /\ UNCHANGED <<smartVars, genVars, callVars>>

\* line 476 raises because params does not bind: lines 494-502
HandleBadArguments ==
    /\ AtHandler
    /\ IsDict(line) /\ InMethodMap(MethodOf(line))
    /\ ~Binds(MethodOf(line).str, ParamsOf(line))
    /\ Reply(ErrorResponse(RequestId(line), -32603, "Internal error"))
    /\ UNCHANGED <<smartVars, genVars, callVars>>

----------------------------------------------------------------------------
(* The tools that pass one call through to a collaborator.                 *)

\* a tool that calls one Unity Catalog helper: lines 72-76, 88-92,
\* 107-111, 125-129, 375-379
CatalogTool(m) ==
    /\ AtHandler
    /\ Calls(line, m)
    /\ \E outcome \in CatalogOutcomes :
          ToolReturns(IF outcome.kind = "raises"
                      THEN [msg |-> "Error", tool |-> m, detail |-> outcome.text]
                      ELSE [msg |-> "text", tool |-> m])
    /\ catalogCalls' = catalogCalls + 1
    /\ UNCHANGED <<smartVars, genVars, model, modelCalls, sqlCalls, sqlArg, warehouseCalls, sdk>>

list_all_catalogs == CatalogTool("list_all_catalogs")
list_schemas_in_catalog == CatalogTool("list_schemas_in_catalog")
list_tables_in_schema == CatalogTool("list_tables_in_schema")
get_table_details == CatalogTool("get_table_details")
clear_cache == CatalogTool("clear_cache")

\* a search tool called as a tool: lines 142-165, 179-196, 209-231
SearchToolCall(m, pattern_arg) ==
    /\ AtHandler
    /\ Calls(line, m)
    /\ \E outcome \in SearchOutcomes(warehouse) :
          ToolReturns(SearchTool(Arg(line, pattern_arg, None), outcome))
    /\ warehouseCalls' = warehouseCalls + 1
    /\ UNCHANGED <<smartVars, genVars, model, modelCalls, sqlCalls, sqlArg, sdk, catalogCalls>>

search_tables_by_name == SearchToolCall("search_tables_by_name", "table_name_pattern")
search_columns_by_name == SearchToolCall("search_columns_by_name", "column_name_pattern")
search_tables_by_description ==
    SearchToolCall("search_tables_by_description", "description_pattern")

\* execute_sql_query called as a tool: lines 393-412
execute_sql_query ==
    /\ AtHandler
    /\ Calls(line, "execute_sql_query")
    /\ \E outcome \in WarehouseOutcomes :
          /\ sdk' = outcome
          /\ ToolReturns(ExecuteSqlQuery(outcome))
    /\ sqlCalls' = sqlCalls + 1
    /\ sqlArg' = Arg(line, "sql", None)
    /\ warehouseCalls' = warehouseCalls + 1
    /\ UNCHANGED <<smartVars, genVars, model, modelCalls, catalogCalls>>

----------------------------------------------------------------------------
(* natural_language_query and smart_natural_language_query, step by step.  *)

IsSmart == MethodOf(line) = JStr("smart_natural_language_query")

\* natural_language_query is entered: line 434 comes next
natural_language_query ==
    /\ AtHandler
    /\ Calls(line, "natural_language_query")
    /\ query' = Arg(line, "query", None)
    /\ stage' = "generate"
    /\ UNCHANGED <<hostVars, stderrRoom, loopVars, smartVars, prompt, generated_sql, callVars>>

\* smart_natural_language_query is entered: lines 252-255
smart_natural_language_query ==
    /\ AtHandler
    /\ Calls(line, "smart_natural_language_query")
    /\ query' = Arg(line, "query", None)
    /\ stage' = IF Arg(line, "auto_discover_schema", TRUE) THEN "extract" ELSE "generate"
    /\ UNCHANGED <<hostVars, stderrRoom, loopVars, smartVars, prompt, generated_sql, callVars>>

\* lines 255-298: extract the keywords of the query and print them to
\* sys.stderr (line 292), which blocks while a pipe there is full; without
\* a keyword the two loops that follow do nothing
SmartExtract ==
    /\ stage = "extract"
    /\ StderrTakesLine
    /\ stderrRoom' = StderrAfterLine
    /\ \E ks \in KeywordLists(query) :
          /\ keywords' = ks
          /\ stage' = IF ks = <<>> THEN "generate" ELSE "search"
    /\ UNCHANGED <<hostVars, loopVars, kwIndex, searchNo, discovered_tables,
                   searchFailed, rowsReturned, detailed, table_details_map, schema_context,
                   genVars, callVars>>

\* SmartSearch with search tools that let the fault of the warehouse pass:
\* it reaches the except clause of line 365 and ends the request
SmartSearchStopsOnFault ==
    /\ stage = "search"
    /\ \E outcome \in SearchOutcomes(warehouse) :
          /\ discovered_tables' =
                discovered_tables \cup TablesFound(SearchTool(keywords[kwIndex], outcome))
          /\ searchFailed' = (searchFailed \/ outcome.kind = "raises")
          /\ rowsReturned' = rowsReturned \cup TablesReturned(outcome)
          /\ IF outcome.kind = "raises"
             THEN /\ ToolReturns([msg |-> "Error in smart natural language query",
                                  detail |-> outcome.text])
                  /\ UNCHANGED <<kwIndex, searchNo>>
             ELSE /\ UNCHANGED <<hostVars, stderrRoom, loopVars>>
                  /\ IF searchNo < 3
                     THEN /\ searchNo' = searchNo + 1
                          /\ UNCHANGED <<kwIndex, stage>>
                     ELSE /\ searchNo' = 1
                          /\ kwIndex' = kwIndex + 1
                          /\ stage' = IF kwIndex + 1 <= Len(Prefix(keywords, KeywordLimit))
                                      THEN "search"
                                      ELSE IF discovered_tables' = {} THEN "generate"
                                      ELSE "details"
    /\ warehouseCalls' = warehouseCalls + 1
    /\ UNCHANGED <<keywords, detailed, table_details_map, schema_context, genVars,
                   model, modelCalls, sqlCalls, sqlArg, sdk, catalogCalls>>

\* lines 298-336: one of the three searches of one keyword of keywords[:5],
\* by table name (line 300), by description (line 313), by column name
\* (line 325); searchNo counts them in this order
SmartSearch ==
    /\ stage = "search"
    /\ \E outcome \in SearchOutcomes(warehouse) :
          /\ discovered_tables' =
                discovered_tables \cup TablesFound(SearchTool(keywords[kwIndex], outcome))
          /\ searchFailed' = (searchFailed \/ outcome.kind = "raises")
          /\ rowsReturned' = rowsReturned \cup TablesReturned(outcome)
    /\ warehouseCalls' = warehouseCalls + 1
    /\ IF searchNo < 3
       THEN /\ searchNo' = searchNo + 1
            /\ UNCHANGED <<kwIndex, stage>>
       ELSE /\ searchNo' = 1
            /\ kwIndex' = kwIndex + 1
            /\ stage' = IF kwIndex + 1 <= Len(Prefix(keywords, KeywordLimit)) THEN "search"
                        ELSE IF discovered_tables' = {} THEN "generate"
                        ELSE "details"
    /\ UNCHANGED <<hostVars, stderrRoom, loopVars, keywords, detailed, table_details_map,
                   schema_context, genVars, model, modelCalls, sqlCalls, sqlArg, sdk,
                   catalogCalls>>

\* SmartDetail with a get_table_details that lets the fault of the catalog
\* pass, and no except clause in the loop: the fault ends the request
SmartDetailStopsOnFault ==
    /\ stage = "details"
    /\ \E table \in discovered_tables \ detailed, outcome \in DetailOutcomes :
          LET table_details == GetTableDetails(table, outcome)
          IN  /\ detailed' = detailed \cup {table}
              /\ table_details_map' =
                    [t \in detailed \cup {table} |->
                        IF t = table THEN table_details ELSE table_details_map[t]]
              /\ schema_context' = Append(schema_context, table_details)
              /\ IF outcome.kind = "raises"
                 THEN ToolReturns([msg |-> "Error in smart natural language query",
                                   detail |-> outcome.text])
                 ELSE /\ UNCHANGED <<hostVars, stderrRoom, loopVars>>
                      /\ stage' = IF detailed' = discovered_tables
                                     \/ Cardinality(detailed') >= TableLimit
                                  THEN "generate" ELSE "details"
    /\ catalogCalls' = catalogCalls + 1
    /\ UNCHANGED <<keywords, kwIndex, searchNo, discovered_tables, searchFailed, rowsReturned,
                   genVars, model, modelCalls, sqlCalls, sqlArg, warehouseCalls, sdk>>

\* lines 339-346: the details of the next table of list(discovered_tables)[:5];
\* the set is listed in an order the code does not choose
SmartDetail ==
    /\ stage = "details"
    /\ \E table \in discovered_tables \ detailed, outcome \in DetailOutcomes :
          LET table_details == GetTableDetails(table, outcome)
          IN  /\ detailed' = detailed \cup {table}
              /\ table_details_map' =
                    [t \in detailed \cup {table} |->
                        IF t = table THEN table_details ELSE table_details_map[t]]
              /\ schema_context' = Append(schema_context, table_details)
    /\ catalogCalls' = catalogCalls + 1
    /\ stage' = IF detailed' = discovered_tables \/ Cardinality(detailed') >= TableLimit
                THEN "generate" ELSE "details"
    /\ UNCHANGED <<hostVars, stderrRoom, loopVars, keywords, kwIndex, searchNo,
                   discovered_tables, searchFailed, rowsReturned,
                   genVars, model, modelCalls, sqlCalls, sqlArg, warehouseCalls, sdk>>

\* lines 349-353 and 434-438: generate_sql_from_natural_language is called
\* and its value tested for the error signal
GenerateSql ==
    /\ stage = "generate"
    /\ \E outcome \in (IF apiKey THEN ModelOutcomes ELSE {NoCall}) :
          /\ generated_sql' = generate_sql_from_natural_language(apiKey, outcome)
          /\ model' = outcome
          /\ modelCalls' = IF outcome = NoCall THEN modelCalls ELSE modelCalls + 1
          /\ prompt' = IF outcome = NoCall THEN prompt
                       ELSE BuildPrompt(query, Arg(line, "catalog_name", None),
                                        Arg(line, "schema_name", None), schema_context)
    /\ IF IsErrorSignal(generated_sql')
       THEN Reply(ResultResponse(RequestId(line), generated_sql'))
       ELSE /\ stage' = "execute"
            /\ UNCHANGED <<hostVars, stderrRoom, loopVars>>
    /\ UNCHANGED <<smartVars, query, sqlCalls, sqlArg, warehouseCalls, sdk, catalogCalls>>

\* lines 356-363 and 441-445: the generated SQL is executed and the result
\* of the tool assembled
ExecuteGenerated ==
    /\ stage = "execute"
    /\ \E outcome \in WarehouseOutcomes :
          /\ sdk' = outcome
          /\ ToolReturns([msg |-> "Generated SQL",
                          sql |-> generated_sql,
                          context |-> IF IsSmart THEN schema_context ELSE <<>>,
                          results |-> ExecuteSqlQuery(outcome)])
    /\ sqlCalls' = sqlCalls + 1
    /\ sqlArg' = generated_sql
    /\ warehouseCalls' = warehouseCalls + 1
    /\ UNCHANGED <<smartVars, genVars, model, modelCalls, catalogCalls>>

Init ==
    /\ apiKey \in BOOLEAN
    /\ warehouse = TableNames
    /\ clientPc = "none"
    /\ NoClient
    /\ sent = 0
    /\ stdinPipe = <<>>
    /\ stderrRoom = Unbounded
    /\ pc = "read"
    /\ nRead = 0
    /\ written = 0
    /\ line = NoLine
    /\ response = <<>>
    /\ stage = "idle"
    /\ query = <<>>
    /\ keywords = <<>>
    /\ kwIndex = 1
    /\ searchNo = 1
    /\ discovered_tables = {}
    /\ searchFailed = FALSE
    /\ rowsReturned = {}
    /\ detailed = {}
    /\ table_details_map = <<>>
    /\ schema_context = <<>>
    /\ prompt = <<>>
    /\ generated_sql = <<>>
    /\ model = NoCall
    /\ modelCalls = 0
    /\ sqlCalls = 0
    /\ sqlArg = <<>>
    /\ warehouseCalls = 0
    /\ sdk = NoCall
    /\ catalogCalls = 0

Next ==
    \/ ReadLine
    \/ EndOfInput
    \/ WriteResponse
    \/ HandleInvalidJson
    \/ HandleNotADict
    \/ HandleUnhashableMethod
    \/ HandleMethodNotFound
    \/ HandleBadArguments
    \/ list_all_catalogs
    \/ list_schemas_in_catalog
    \/ list_tables_in_schema
    \/ get_table_details
    \/ clear_cache
    \/ search_tables_by_name
    \/ search_columns_by_name
    \/ search_tables_by_description
    \/ execute_sql_query
    \/ natural_language_query
    \/ smart_natural_language_query
    \/ SmartExtract
    \/ SmartSearch
    \/ SmartDetail
    \/ GenerateSql
    \/ ExecuteGenerated

Spec == Init /\ [][Next]_vars

----------------------------------------------------------------------------
(* The extraction alone, over every query within the bounds.               *)

ExtractInit ==
    /\ apiKey = TRUE
    /\ warehouse = TableNames
    /\ clientPc = "none"
    /\ NoClient
    /\ sent = 0
    /\ stdinPipe = <<>>
    /\ stderrRoom = Unbounded
    /\ pc = "handle"
    /\ nRead = 1
    /\ written = 0
    /\ line = [json |-> "invalid"]
    /\ response = <<>>
    /\ stage = "extract"
    /\ query \in Queries
    /\ keywords = <<>>
    /\ kwIndex = 1
    /\ searchNo = 1
    /\ discovered_tables = {}
    /\ searchFailed = FALSE
    /\ rowsReturned = {}
    /\ detailed = {}
    /\ table_details_map = <<>>
    /\ schema_context = <<>>
    /\ prompt = <<>>
    /\ generated_sql = <<>>
    /\ model = NoCall
    /\ modelCalls = 0
    /\ sqlCalls = 0
    /\ sqlArg = <<>>
    /\ warehouseCalls = 0
    /\ sdk = NoCall
    /\ catalogCalls = 0

ExtractNext == SmartExtract

ExtractSpec == ExtractInit /\ [][ExtractNext]_vars

----------------------------------------------------------------------------
(* The discovery alone: one call of smart_natural_language_query up to the *)
(* call of generate_sql_from_natural_language, in a warehouse of three     *)
(* tables.                                                                 *)

\* a query of six keywords, one more than keywords[:5] takes
SixWords ==
    <<"c","o","d"," ","c","o","e"," ","c","o","f"," ",
      "c","o","r"," ","d","o","e"," ","d","o","r">>

\* the requests and the warehouses they meet: no keyword, two keywords of
\* which one is in the name of one of three tables, one keyword in a
\* warehouse that has a table named Error, and six keywords in a warehouse
\* of one table
DiscoverWorlds ==
    { [query |-> <<>>, tables |-> MoreTableNames],
      [query |-> <<"c","o","d"," ","1">>, tables |-> MoreTableNames],
      [query |-> <<"e","r","r","o","r">>, tables |-> { ErrorTable, <<"t">> }],
      [query |-> SixWords, tables |-> { <<"t">> }] }

DiscoverInit ==
    /\ apiKey = TRUE
    /\ \E w \in DiscoverWorlds :
          /\ warehouse = w.tables
          /\ line = Object(JStr("smart_natural_language_query"),
                           JObj([query |-> w.query]), JNum(7))
    /\ clientPc = "none"
    /\ NoClient
    /\ sent = 0
    /\ stdinPipe = <<>>
    /\ stderrRoom = Unbounded
    /\ pc = "handle"
    /\ nRead = 1
    /\ written = 0
    /\ response = <<>>
    /\ stage = "idle"
    /\ query = <<>>
    /\ keywords = <<>>
    /\ kwIndex = 1
    /\ searchNo = 1
    /\ discovered_tables = {}
    /\ searchFailed = FALSE
    /\ rowsReturned = {}
    /\ detailed = {}
    /\ table_details_map = <<>>
    /\ schema_context = <<>>
    /\ prompt = <<>>
    /\ generated_sql = <<>>
    /\ model = NoCall
    /\ modelCalls = 0
    /\ sqlCalls = 0
    /\ sqlArg = <<>>
    /\ warehouseCalls = 0
    /\ sdk = NoCall
    /\ catalogCalls = 0

DiscoverNext ==
    \/ smart_natural_language_query
    \/ SmartExtract
    \/ SmartSearch
    \/ SmartDetail

DiscoverSpec == DiscoverInit /\ [][DiscoverNext]_vars

----------------------------------------------------------------------------
(* The server as MCPClient of src/streamlit_mcp_client.py runs it: the     *)
(* three standard streams of the process are pipes, the client writes one  *)
(* request line and reads one response line at a time, and nothing reads   *)
(* the pipe of sys.stderr.                                                 *)

\* the lines the pipe of sys.stderr holds before a write to it blocks (the
\* pipe holds bytes, 64 KiB on Linux; the model counts whole lines)
PipeCapacity == 3

\* the requests the client sends before it rests
MaxRequests == 2

\* send_request, lines 51-57: the request of a method and its params, with
\* the id 1
ClientRequest(method, params) == Object(JStr(method), params, JNum(1))

\* the requests of the page: a question, and the button that clears the cache
ClientRequests ==
    { ClientRequest("smart_natural_language_query",
                    JObj([query |-> <<"c","o","d"," ","1">>,
                          auto_discover_schema |-> TRUE])),
      ClientRequest("clear_cache", JObj(<<>>)) }

\* start_server, lines 21-30, has started the process
ClientInit ==
    /\ apiKey = TRUE
    /\ warehouse = TableNames
    /\ clientPc = "idle"
    /\ sent = 0
    /\ stdinPipe = <<>>
    /\ process = 1
    /\ server_stdin = 1
    /\ server_stdout = 1
    /\ started = 1
    /\ alive = {1}
    /\ stopped = FALSE
    /\ returned = "True"
    /\ pipeUsed = NoProcess
    /\ stderrRoom = PipeCapacity
    /\ pc = "start"
    /\ nRead = 0
    /\ written = 0
    /\ line = NoLine
    /\ response = <<>>
    /\ stage = "idle"
    /\ query = <<>>
    /\ keywords = <<>>
    /\ kwIndex = 1
    /\ searchNo = 1
    /\ discovered_tables = {}
    /\ searchFailed = FALSE
    /\ rowsReturned = {}
    /\ detailed = {}
    /\ table_details_map = <<>>
    /\ schema_context = <<>>
    /\ prompt = <<>>
    /\ generated_sql = <<>>
    /\ model = NoCall
    /\ modelCalls = 0
    /\ sqlCalls = 0
    /\ sqlArg = <<>>
    /\ warehouseCalls = 0
    /\ sdk = NoCall
    /\ catalogCalls = 0

\* main2.py 506-507: the print and the logger.info of the start, one line
\* each on sys.stderr, and the loop is entered
ServerStartup ==
    /\ pc = "start"
    /\ stderrRoom = Unbounded \/ stderrRoom >= 2
    /\ stderrRoom' = IF stderrRoom = Unbounded THEN Unbounded ELSE stderrRoom - 2
    /\ pc' = "read"
    /\ UNCHANGED <<hostVars, nRead, written, line, response, stage, smartVars,
                   genVars, callVars>>

\* send_request, lines 48-63: the request line is written to the pipe of
\* the server's stdin and flushed
SendRequest ==
    /\ clientPc = "idle"
    /\ sent < MaxRequests
    /\ server_stdin # NoProcess /\ server_stdout # NoProcess
    /\ \E request \in ClientRequests : stdinPipe' = Append(stdinPipe, request)
    /\ sent' = sent + 1
    /\ clientPc' = "awaiting"
    /\ pipeUsed' = server_stdin
    /\ UNCHANGED <<apiKey, warehouse, process, server_stdin, server_stdout, started,
                   alive, stopped, returned, stderrRoom, loopVars, stage,
                   smartVars, genVars, callVars>>

\* send_request, lines 66-68: readline returns when the server has written
\* the response line
ReceiveResponse ==
    /\ clientPc = "awaiting"
    /\ written >= sent
    /\ clientPc' = "idle"
    /\ returned' = "response"
    /\ UNCHANGED <<apiKey, warehouse, sent, stdinPipe, process, server_stdin,
                   server_stdout, started, alive, stopped, pipeUsed, stderrRoom,
                   loopVars, stage, smartVars, genVars, callVars>>

\* main2.py 512: readline returns the next line of the pipe
PipeReadLine ==
    /\ pc = "read"
    /\ stdinPipe # <<>>
    /\ line' = Head(stdinPipe)
    /\ stdinPipe' = Tail(stdinPipe)
    /\ nRead' = nRead + 1
    /\ pc' = "handle"
    /\ FreshLocals
    /\ UNCHANGED <<apiKey, warehouse, clientPc, sent, clientVars, stderrRoom, written>>

ClientNext ==
    \/ ServerStartup
    \/ SendRequest
    \/ ReceiveResponse
    \/ PipeReadLine
    \/ WriteResponse
    \/ clear_cache
    \/ smart_natural_language_query
    \/ SmartExtract
    \/ SmartSearch
    \/ SmartDetail
    \/ GenerateSql
    \/ ExecuteGenerated

\* every step of the client and of the server is taken when it can be:
\* both are running processes, and every collaborator call returns
ClientSpec == ClientInit /\ [][ClientNext]_vars /\ WF_vars(ClientNext)

----------------------------------------------------------------------------
(* The life of the server processes of one MCPClient: start_server,        *)
(* stop_server and send_request called in any order, as the buttons of the *)
(* page call them. A server process is here only running or not; what a    *)
(* running server does with a request is the subject of ClientSpec.        *)

\* the processes one client starts
MaxStarts == 4

\* the variables the three methods leave alone
serverVars == <<apiKey, warehouse, sent, stdinPipe, stderrRoom, loopVars, stage,
                smartVars, genVars, callVars>>

LifecycleInit ==
    /\ apiKey = TRUE
    /\ warehouse = TableNames
    /\ clientPc = "idle"
    /\ sent = 0
    /\ stdinPipe = <<>>
    /\ NoClient
    /\ stderrRoom = PipeCapacity
    /\ pc = "start"
    /\ nRead = 0
    /\ written = 0
    /\ line = NoLine
    /\ response = <<>>
    /\ stage = "idle"
    /\ query = <<>>
    /\ keywords = <<>>
    /\ kwIndex = 1
    /\ searchNo = 1
    /\ discovered_tables = {}
    /\ searchFailed = FALSE
    /\ rowsReturned = {}
    /\ detailed = {}
    /\ table_details_map = <<>>
    /\ schema_context = <<>>
    /\ prompt = <<>>
    /\ generated_sql = <<>>
    /\ model = NoCall
    /\ modelCalls = 0
    /\ sqlCalls = 0
    /\ sqlArg = <<>>
    /\ warehouseCalls = 0
    /\ sdk = NoCall
    /\ catalogCalls = 0

\* start_server, lines 17-37: Popen starts a new process and the three
\* attributes are set to it and to its pipes, whatever they held; when
\* Popen raises, nothing is assigned and False is returned
start_server ==
    /\ clientPc = "idle"
    /\ started < MaxStarts
    /\ \E popen \in {"returns", "raises"} :
          IF popen = "returns"
          THEN /\ started' = started + 1
               /\ alive' = alive \cup {started + 1}
               /\ process' = started + 1
               /\ server_stdin' = started + 1
               /\ server_stdout' = started + 1
               /\ stopped' = FALSE
               /\ returned' = "True"
          ELSE /\ returned' = "False"
               /\ UNCHANGED <<started, alive, process, server_stdin, server_stdout,
                              stopped>>
    /\ UNCHANGED <<clientPc, pipeUsed, serverVars>>

\* stop_server, lines 39-44: the process of self.process, if there is one,
\* is terminated and waited for, and self.process is set to None; the two
\* pipe attributes are left as they are
stop_server ==
    /\ clientPc = "idle"
    /\ IF process # NoProcess
       THEN /\ alive' = alive \ {process}
            /\ process' = NoProcess
       ELSE UNCHANGED <<alive, process>>
    /\ stopped' = TRUE
    /\ returned' = "None"
    /\ UNCHANGED <<clientPc, server_stdin, server_stdout, started, pipeUsed, serverVars>>

\* send_request, lines 46-73: without both pipe attributes the error Server
\* not connected; else the request is written to self.server_stdin, which
\* raises BrokenPipeError when its process has ended (line 73), and a line
\* is read from self.server_stdout, which a running server writes unless it
\* has stalled, and then readline does not return
send_request ==
    /\ clientPc = "idle"
    /\ IF server_stdin = NoProcess \/ server_stdout = NoProcess
       THEN /\ returned' = "Server not connected"
            /\ pipeUsed' = NoProcess
            /\ UNCHANGED clientPc
       ELSE /\ pipeUsed' = server_stdin
            /\ IF server_stdin \in alive
               THEN \E answered \in BOOLEAN :
                       IF answered
                       THEN returned' = "response" /\ UNCHANGED clientPc
                       ELSE clientPc' = "awaiting" /\ UNCHANGED returned
               ELSE returned' = "Communication error" /\ UNCHANGED clientPc
    /\ UNCHANGED <<process, server_stdin, server_stdout, started, alive, stopped,
                   serverVars>>

LifecycleNext ==
    \/ start_server
    \/ stop_server
    \/ send_request

LifecycleSpec == LifecycleInit /\ [][LifecycleNext]_vars

----------------------------------------------------------------------------
(* Properties of the server (Spec).                                        *)

\* the statement allow-list of the specification
AllowList ==
    { <<"S","E","L","E","C","T">>,
      <<"W","I","T","H">>,
      <<"I","N","S","E","R","T">>,
      <<"U","P","D","A","T","E">>,
      <<"D","E","L","E","T","E">>,
      <<"C","R","E","A","T","E">>,
      <<"A","L","T","E","R">>,
      <<"D","R","O","P">>,
      <<"S","H","O","W">>,
      <<"D","E","S","C","R","I","B","E">>,
      <<"E","X","P","L","A","I","N">> }

\* the first word of a text, or the empty string
FirstWord(text) == IF Split(text) = <<>> THEN <<>> ELSE Head(Split(text))

StartsWithAllowedKeyword(text) == Upper(FirstWord(text)) \in AllowList

\* the line is a call of one of the two natural-language tools
IsNaturalLanguageCall ==
    \/ Calls(line, "natural_language_query")
    \/ Calls(line, "smart_natural_language_query")

\* the line has been handled: its response is about to be, or has been, written
Handled == line # NoLine /\ pc \in {"write", "read", "stopped"}

NoCollaboratorCalled ==
    /\ modelCalls = 0
    /\ sqlCalls = 0
    /\ warehouseCalls = 0
    /\ catalogCalls = 0

\* C1: whatever the model replies, the string that
\* generate_sql_from_natural_language returns and that the two
\* natural-language tools pass to execute_sql_query starts with a keyword of
\* the allow-list (in any letter case).
C1_ExecutedSqlStartsWithAllowedKeyword ==
    (IsNaturalLanguageCall /\ model.kind = "returns" /\ sqlCalls > 0) =>
        /\ sqlArg = generated_sql
        /\ StartsWithAllowedKeyword(sqlArg)

\* C2: when the call of the model raises, execute_sql_query and the
\* warehouse call inside it are never made for that request.
C2_ModelFaultNeverExecutes ==
    (IsNaturalLanguageCall /\ model.kind = "raises")
        => (sqlCalls = 0 /\ sdk = NoCall)

\* C3: without GEMINI_API_KEY the model is not called, the value of
\* generate_sql_from_natural_language is the configuration error, and both
\* natural-language tools return it verbatim without calling
\* execute_sql_query.
C3_MissingKeyShortCircuits ==
    (~apiKey /\ IsNaturalLanguageCall) =>
        /\ modelCalls = 0 /\ model = NoCall
        /\ sqlCalls = 0 /\ sdk = NoCall
        /\ stage # "execute"
        /\ Handled => /\ generated_sql = GEMINI_KEY_ERROR
                      /\ DOMAIN response = {"jsonrpc", "id", "result"}
                      /\ response.result = GEMINI_KEY_ERROR

\* smart_natural_language_query searched the warehouse and then returned
\* the configuration error
C3_Witness ==
    /\ ~apiKey
    /\ Calls(line, "smart_natural_language_query")
    /\ warehouseCalls > 0
    /\ pc = "write"
    /\ response.result = GEMINI_KEY_ERROR

\* C4: one response is written for each line read, and it is written before
\* the next line is read: at readline every line read has its response, and
\* while a line is served exactly its response is missing; a line being
\* served can always take its next step towards the response.
C4_OneResponsePerLine ==
    /\ pc \in {"read", "stopped"} => written = nRead
    /\ pc \in {"handle", "write"} => written = nRead - 1
    /\ pc \in {"handle", "write"} => ENABLED Next

\* the second line has been read after the first was answered
C4_Witness == pc = "handle" /\ nRead = 2 /\ written = 1

\* C5: the id of every response is the id the request carries, or null.
C5_ResponseIdFromRequest ==
    pc = "write" =>
        \/ response.id = JNull
        \/ IsDict(line) /\ "id" \in DOMAIN line.members /\ response.id = line.members.id

\* a request with an id and a method name that is no key of method_map
IsUnknownMethodRequest ==
    /\ IsDict(line)
    /\ "id" \in DOMAIN line.members
    /\ MethodOf(line).type = "string"
    /\ MethodOf(line).str \notin method_map
    /\ ParamsOf(line).type = "object"

\* C6: a well-formed request for an unknown method gets the error -32601
\* with its own id, and no tool function or collaborator is called for it.
C6_UnknownMethod ==
    IsUnknownMethodRequest =>
        /\ stage = "idle"
        /\ NoCollaboratorCalled
        /\ Handled => /\ DOMAIN response = {"jsonrpc", "id", "error"}
                      /\ response.error.code = -32601
                      /\ response.id = line.members.id

C6_Witness ==
    /\ IsUnknownMethodRequest
    /\ line.members.id = JNum(7)
    /\ "params" \in DOMAIN line.members
    /\ pc = "write"

IsStructuredError(resp) ==
    /\ DOMAIN resp = {"jsonrpc", "id", "error"}
    /\ resp.jsonrpc = "2.0"
    /\ DOMAIN resp.error = {"code", "message"}

\* C7: a line that is not JSON gets one structured error response, and
\* the loop goes back to readline: it stops only at the end of input.
C7_InvalidJsonAnswered ==
    /\ [](line.json = "invalid" /\ Handled =>
            IsStructuredError(response) /\ NoCollaboratorCalled)
    /\ [][line.json = "invalid" /\ pc = "handle" => pc' = "write"]_vars
    /\ [][line.json = "invalid" /\ pc = "write" =>
            pc' = "read" /\ written' = nRead]_vars
    /\ [][pc' = "stopped" => pc = "read" /\ written = nRead]_vars

\* a line that is not JSON has been answered and the loop is at readline
\* with input left
C7_Witness ==
    /\ line.json = "invalid"
    /\ pc = "read"
    /\ written = 1
    /\ nRead < MaxLines

\* the line is a call of execute_sql_query, as a tool or by
\* natural_language_query
RunsOneStatement ==
    \/ Calls(line, "execute_sql_query")
    \/ Calls(line, "natural_language_query")

\* the value of execute_sql_query in the response
SqlResultOf(resp) ==
    IF Calls(line, "execute_sql_query") THEN resp.result ELSE resp.result.results

\* C8: execute_sql_query calls the warehouse once and turns what it did
\* into its value: failed and error into their messages with error and
\* details (or the defaults), success into the formatted rows, any other
\* status into the unexpected-status message, a fault into the
\* unexpected-error message with the text of the fault; it never raises.
C8_ExecuteClassifies ==
    (RunsOneStatement /\ Handled /\ sqlCalls > 0) =>
        /\ sqlCalls = 1
        /\ warehouseCalls = 1
        /\ DOMAIN response = {"jsonrpc", "id", "result"}
        /\ LET r == SqlResultOf(response)
           IN  IF sdk.kind = "raises"
               THEN /\ r.msg = "An unexpected error occurred while executing SQL query"
                    /\ r.detail = sdk.text
               ELSE IF "status" \notin DOMAIN sdk.value
               THEN /\ r.msg = "Received an unexpected status from query execution"
                    /\ r.status = None
               ELSE IF sdk.value.status = "failed"
               THEN /\ r.msg = "SQL Query Failed"
                    /\ "error" \in DOMAIN sdk.value => r.error = sdk.value.error
                    /\ "error" \notin DOMAIN sdk.value =>
                          r.error = "Unknown query execution error."
                    /\ "details" \in DOMAIN sdk.value => r.details = sdk.value.details
                    /\ "details" \notin DOMAIN sdk.value =>
                          r.details = "No additional details provided."
               ELSE IF sdk.value.status = "error"
               THEN /\ r.msg = "Error during SQL Execution"
                    /\ "error" \in DOMAIN sdk.value => r.error = sdk.value.error
                    /\ "error" \notin DOMAIN sdk.value =>
                          r.error = "Unknown error during SQL execution."
                    /\ "details" \in DOMAIN sdk.value => r.details = sdk.value.details
                    /\ "details" \notin DOMAIN sdk.value =>
                          r.details = "No additional details provided."
               ELSE IF sdk.value.status = "success"
               THEN /\ r.msg = "rows"
                    /\ Len(SplitOn(r.text, "\n")) = 2 + Len(sdk.value.data)
               ELSE /\ r.msg = "Received an unexpected status from query execution"
                    /\ r.status = sdk.value.status
                    /\ r.result = sdk.value

\* execute_sql_query, called as a tool, has caught a fault of the warehouse
C8_Witness ==
    /\ Calls(line, "execute_sql_query")
    /\ pc = "write"
    /\ sdk.kind = "raises"
    /\ sdk.text = <<"b","o","o","m">>

----------------------------------------------------------------------------
(* Properties of the keyword extraction (ExtractSpec).                     *)

IsNumeric(k) == k # <<>> /\ \A i \in 1..Len(k) : k[i] \in Digits

\* the members of the synonym group of id other than id itself
IdSynonyms == Range(column_variations[2]) \ { <<"i","d">> }

\* the tokens of a query split on word boundaries (maximal runs of letters,
\* digits and underscore), lowercased
RECURSIVE WordTokensFrom(_, _, _)
WordTokensFrom(s, i, cur) ==
    IF i > Len(s)
    THEN (IF cur = <<>> THEN {} ELSE {cur})
    ELSE IF ~IsWordChar(s[i])
         THEN (IF cur = <<>> THEN {} ELSE {cur}) \cup WordTokensFrom(s, i + 1, <<>>)
         ELSE WordTokensFrom(s, i + 1, Append(cur, s[i]))

WordTokens(s) == WordTokensFrom(Lower(s), 1, <<>>)

Extracted == stage # "extract"

\* C9, as claimed: every extracted keyword is not a stop word and either is
\* longer than 2 characters or is purely numeric.
C9_AsClaimed ==
    Extracted =>
        \A k \in Range(keywords) :
            k \notin stop_words /\ (Len(k) > 2 \/ IsNumeric(k))

\* C9, amended: every extracted keyword is not a stop word and either is
\* longer than 2 characters, or is purely numeric, or is the two-letter
\* synonym id that the expansion added for another member of its group
\* (identifier, code, number) that is itself a keyword.
C9_KeywordsWellFormed ==
    Extracted =>
        \A k \in Range(keywords) :
            /\ k \notin stop_words
            /\ \/ Len(k) > 2
               \/ IsNumeric(k)
               \/ k = <<"i","d">> /\ Range(keywords) \cap IdSynonyms # {}

\* a query that names code has been extracted, and id came with it
C9_Witness ==
    /\ Extracted
    /\ <<"i","d">> \in Range(keywords)
    /\ <<"c","o","d","e">> \in Range(keywords)

\* C10: a query whose word-boundary tokens are all stop words yields no
\* keyword.
C10_StopWordsOnlyEmpty ==
    (Extracted /\ WordTokens(query) # {} /\ WordTokens(query) \subseteq stop_words)
        => keywords = <<>>

\* the standalone runs of digits of a query: the maximal runs of word
\* characters of the query as given that consist of digits only (a run that
\* touches a letter or an underscore is part of a longer token and is not
\* standalone)
StandaloneDigitRuns(q) == { t \in WordTokensFrom(q, 1, <<>>) : IsNumeric(t) }

\* C11: every standalone run of digits of the query is a keyword, verbatim,
\* whatever its length and whatever punctuation is next to it.
C11_DigitRunsAreKeywords ==
    Extracted => StandaloneDigitRuns(query) \subseteq Range(keywords)

\* a run of one digit and a run of two digits, separated by a comma, have
\* been extracted
C11_Witness ==
    /\ Extracted
    /\ query = <<"1", ",", "1", "1">>
    /\ <<"1">> \in Range(keywords)
    /\ <<"1", "1">> \in Range(keywords)

\* the keyword set of the keywords joined with spaces and extracted again
Reextracted(kws) == SetOf(ExpandedKeywords(Join(kws, <<" ">>)))

\* C12: extracting the keywords of the joined keywords yields the same
\* keyword set, less its stop words.
C12_ExtractionIdempotent ==
    Extracted => Reextracted(keywords) = Range(keywords) \ stop_words

----------------------------------------------------------------------------
(* Properties of the discovery (DiscoverSpec).                             *)

IsSmartCall == Calls(line, "smart_natural_language_query")

\* the request is past the search loop, past the detail loop
PastSearch == stage \in {"details", "generate", "execute"} \/ Handled
PastDetails == stage \in {"generate", "execute"} \/ Handled

\* the tables of the blocks of the schema context, in their order
ContextTables == [i \in 1..Len(schema_context) |-> schema_context[i].table]

\* C13: table detail is fetched for at most 2 discovered tables, and the
\* schema context holds at most 2 blocks, however many tables were
\* discovered.
C13_AtMostTwoTables ==
    IsSmartCall =>
        /\ catalogCalls <= 2
        /\ Cardinality(detailed) <= 2
        /\ Len(schema_context) <= 2

\* the score of a table: the keywords of the whole keyword list that are
\* substrings of its lowercased identifier
Score(table) ==
    Cardinality({ k \in Range(keywords) : Contains(Lower(table), k) })

\* C14: the tables of the schema context are the highest-scoring
\* discovered tables: they stand in descending order of score, and no
\* discovered table left out scores higher than one that was taken.  (The
\* order among equal scores, by first discovery, is left open here.)
C14_ContextIsTopScoring ==
    (IsSmartCall /\ PastDetails) =>
        /\ \A i, j \in 1..Len(ContextTables) :
              i < j => Score(ContextTables[i]) >= Score(ContextTables[j])
        /\ \A out \in discovered_tables \ Range(ContextTables) :
              \A in \in Range(ContextTables) : Score(out) <= Score(in)

\* C15: another run with the same query and the same replies searches the
\* same keywords and puts the same tables into the schema context in the
\* same order: whatever list of the keyword set and whatever listing of
\* the discovered tables the other run draws, the outcome is this one.
C15_DiscoveryDeterministic ==
    (IsSmartCall /\ PastDetails /\ keywords # <<>>) =>
        /\ \A other \in KeywordLists(query) :
              Range(Prefix(other, KeywordLimit)) = Range(Prefix(keywords, KeywordLimit))
        /\ \A other \in TableListings(discovered_tables) :
              other = ContextTables

\* the searches a smart_natural_language_query request has issued
Searches == warehouseCalls - sqlCalls

Min(a, b) == IF a < b THEN a ELSE b

\* C16: with no keyword no search is issued, and with no keyword or no
\* discovered table no detail is fetched and the schema context is empty;
\* the request goes on to the model, whose prompt has no schema-information
\* section, and answers with a result, not with an error.
C16_EmptyDiscoveryProceeds ==
    (IsSmartCall /\ discovered_tables = {}) =>
        /\ keywords = <<>> => Searches = 0 /\ stage # "search"
        /\ stage # "search" =>
              /\ catalogCalls = 0
              /\ schema_context = <<>>
              /\ stage # "details"
        /\ (apiKey /\ stage = "generate") => ENABLED GenerateSql
        /\ (apiKey /\ (stage = "execute" \/ Handled)) =>
              /\ modelCalls = 1
              /\ prompt.has_schema_information = FALSE
              /\ prompt.schema_information = <<>>
        /\ Handled => DOMAIN response = {"jsonrpc", "id", "result"}

\* the searches of a keyword found no table, and the model was called
\* with a prompt without schema information
C16_Witness ==
    /\ IsSmartCall
    /\ keywords # <<>>
    /\ Searches = 3 * Len(keywords)
    /\ discovered_tables = {}
    /\ modelCalls = 1
    /\ prompt.has_schema_information = FALSE
    /\ pc = "write"

\* C17: searches are issued for at most 5 keywords, three for each in the
\* order of lines 300, 313 and 325 (searchNo 1, 2, 3), so at most 15 in
\* all, and all of them before the first table detail is fetched.
C17_SearchesBounded ==
    /\ [](IsSmartCall =>
            /\ Searches <= 15
            /\ stage = "search" =>
                  /\ kwIndex \in 1..Min(Len(keywords), 5)
                  /\ searchNo \in 1..3
                  /\ Searches = 3 * (kwIndex - 1) + (searchNo - 1)
                  /\ catalogCalls = 0
            /\ (PastSearch \/ catalogCalls > 0) =>
                  Searches = 3 * Min(Len(keywords), 5))
    /\ [][(IsSmartCall /\ stage = "search") =>
            /\ warehouseCalls' = warehouseCalls + 1
            /\ \/ searchNo < 3 /\ searchNo' = searchNo + 1 /\ kwIndex' = kwIndex
               \/ searchNo = 3 /\ searchNo' = 1 /\ kwIndex' = kwIndex + 1]_vars

\* a query of six keywords: the first detail is fetched after 15 searches
C17_Witness ==
    /\ IsSmartCall
    /\ Len(keywords) = 6
    /\ Searches = 15
    /\ catalogCalls = 1

\* C18: a search in which the warehouse fails adds no table and takes none
\* away; the searches that remain are all issued, and the request goes on
\* to the details of the tables the other searches found and to the model.
C18_SearchFaultTolerated ==
    /\ []((IsSmartCall /\ searchFailed) =>
            /\ PastSearch => Searches = 3 * Min(Len(keywords), 5)
            /\ PastDetails =>
                  catalogCalls = Min(Cardinality(discovered_tables), TableLimit)
            /\ (apiKey /\ (stage = "execute" \/ Handled)) => modelCalls = 1
            /\ Handled => DOMAIN response = {"jsonrpc", "id", "result"})
    /\ [][(IsSmartCall /\ stage = "search") =>
            /\ discovered_tables \subseteq discovered_tables'
            /\ (~searchFailed /\ searchFailed') =>
                  discovered_tables' = discovered_tables]_vars

\* a search failed, another found a table, its detail was fetched and the
\* model was called
C18_Witness ==
    /\ IsSmartCall
    /\ searchFailed
    /\ discovered_tables # {}
    /\ catalogCalls = Cardinality(discovered_tables)
    /\ modelCalls = 1
    /\ pc = "write"

\* the tables whose detail fetch failed
FailedDetails == { schema_context[i].table : i \in { j \in 1..Len(schema_context) :
                                                      schema_context[j].error } }

\* C19: when the detail fetch of a table fails, the detail of every other
\* selected table is still fetched and the request goes on to the model.
C19_DetailFaultTolerated ==
    (IsSmartCall /\ FailedDetails # {}) =>
        /\ stage \in {"details", "generate", "execute"} \/ Handled
        /\ stage = "details" => ENABLED SmartDetail
        /\ PastDetails =>
              /\ Cardinality(detailed) = Min(Cardinality(discovered_tables), TableLimit)
              /\ catalogCalls = Cardinality(detailed)
              /\ Range(ContextTables) = detailed
        /\ (apiKey /\ stage = "generate") => ENABLED GenerateSql
        /\ (apiKey /\ (stage = "execute" \/ Handled)) => modelCalls = 1
        /\ Handled => DOMAIN response = {"jsonrpc", "id", "result"}

\* the first detail fetch failed, the second was made and succeeded, and
\* the model was called
C19_Witness ==
    /\ IsSmartCall
    /\ Len(schema_context) = 2
    /\ schema_context[1].error
    /\ ~schema_context[2].error
    /\ modelCalls = 1
    /\ pc = "write"

\* C22: every row a search returned is added to the discovered tables: a
\* search result is dropped only when the search failed, never for what
\* its rows hold, such as a table name with the text Error.
C22_ReturnedRowsDiscovered ==
    IsSmartCall => rowsReturned \subseteq discovered_tables

\* C23: the schema context holds a block only for the tables whose detail
\* fetch succeeded: for a table whose fetch failed nothing, and no error
\* message, is appended to the schema context or kept in table_details_map.
C23_ContextOnlySucceeded ==
    IsSmartCall =>
        /\ \A i \in 1..Len(schema_context) : ~schema_context[i].error
        /\ \A t \in DOMAIN table_details_map : ~table_details_map[t].error

----------------------------------------------------------------------------
(* Properties of the server under MCPClient (ClientSpec).                  *)

\* C20: every request the client has written is answered in the end: the
\* client, waiting in readline, gets its response line.
C20_EveryRequestAnswered == (clientPc = "awaiting") ~> (clientPc = "idle")

----------------------------------------------------------------------------
(* Properties of the processes of one MCPClient (LifecycleSpec).           *)

\* C21: at most one server process the client started is alive, and every
\* one that is alive is the one self.process refers to, which the next
\* stop_server terminates.
C21_OneLiveProcess ==
    /\ Cardinality(alive) <= 1
    /\ \A p \in alive : p = process

\* C24: from a call of stop_server to the next start_server that succeeds,
\* every send_request returns the error Server not connected and uses no
\* pipe of the terminated process.
C24_StoppedMeansNotConnected ==
    [][(stopped /\ send_request) =>
          /\ clientPc' = "idle"
          /\ returned' = "Server not connected"
          /\ pipeUsed' = NoProcess]_vars

====
